---- MODULE Spec2Model ----
(***************************************************************************)
(* ghforeach: RepositoryExecutor.Go, the discovery -> dispatch -> worker   *)
(* -> reporter pipeline of internal/ghforeach/repositoryexecutor.go.       *)
(*                                                                         *)
(* Goroutines are modelled at the granularity of their blocking points:    *)
(* a channel send/receive on an unbuffered channel is one joint step, an   *)
(* external operation (page request, clone, command) has a start and an    *)
(* end, and errgroup's bookkeeping is part of the step that triggers it.   *)
(***************************************************************************)
EXTENDS Integers, Sequences, FiniteSets

\* ------------------------------------------------------------------ bounds
NumNames ==
  2

MaxPages ==
  2

MaxListed ==
  2

MaxConcurrency ==
  2

NumTopics ==
  2

NumOwners ==
  3

MaxOpts ==
  3

MaxLongListed ==
  4

\* ------------------------------------------------------------ error values
Nil ==
  "nil"

ErrRemoveAll ==
  "remove tmpdir failed"

ErrMkdir ==
  "mkdir tmpdir failed"

ErrApi ==
  "api error"

Canceled ==
  "context canceled"

ErrClone ==
  "clone failed"

ErrExit ==
  "exit status 1"

ErrNoOwner ==
  "no user or org specified"

\* ------------------------------------------------------------ output formats
ConsoleOutputFormat ==
  0

JsonOutputFormat ==
  1

\* a format that is neither
InvalidOutputFormat ==
  2

OutputFormats ==
  {ConsoleOutputFormat, JsonOutputFormat, InvalidOutputFormat}

ErrGetwd ==
  "getwd failed"

ErrReadFile ==
  "open: no such file"

ErrNoCommand ==
  "no command provided"

ErrNameExp ==
  "error parsing name regexp"

ErrTopicExp ==
  "error parsing topic regexp"

\* -------------------------------------------------------------- data model
Names ==
  1..NumNames

Topics ==
  1..NumTopics

\* an optional filter: unset (nil pointer / nil map) or set to a value
Unset ==
  [set |-> FALSE, v |-> {}]

Some(s) ==
  [set |-> TRUE, v |-> s]

\* a listed repository; in the pipeline the topics are a function of the name
Repo(n) ==
  [name |-> n, topics |-> IF n = 1 THEN {} ELSE {1}]

RECURSIVE SeqsUpTo(_, _)
SeqsUpTo(S, n) ==
  IF n = 0 THEN {<<>>}
  ELSE LET shorter == SeqsUpTo(S, n - 1)
       IN  shorter \cup {Append(s, x) : s \in {t \in shorter : Len(t) = n - 1}, x \in S}

\* the pages a listing request can return
PageChoices ==
  SeqsUpTo({Repo(n) : n \in Names}, MaxListed)

\* the filter configurations the pipeline is run with
FilterChoices ==
  { [nameRegexp |-> Unset, nameSet |-> Unset, topicRegexp |-> Unset, topicSet |-> Unset],
    [nameRegexp |-> Unset, nameSet |-> Some({1}), topicRegexp |-> Unset, topicSet |-> Unset] }

\* the concurrency limits of the documented domain: positive, or -1 (unbounded)
ConcurrencyChoices ==
  (1..MaxConcurrency) \cup {-1}

VARIABLES
  rh,        \* the RepositoryExecutor's configuration fields
  fs,        \* the working directory tree: root present?, per-repository subdirectories
  gopc,      \* position of Go itself
  ret,       \* Go's return value
  ctx,       \* the shared context: who cancelled it ("none" while live)
  gerr,      \* errgroup g's first error
  disc,      \* the discoverer goroutine
  repoCh,    \* "open" / "closed"
  disp,      \* the dispatcher goroutine
  workers,   \* the worker goroutines in flight (between repoG.Go's start and return)
  resultCh,  \* "open" / "closed"
  rep,       \* the reporter goroutine
  call,      \* the method of the RepositoryExecutor called on its own, with its result
  h          \* history of the run (observations, not program state)

vars ==
  <<rh, fs, gopc, ret, ctx, gerr, disc, repoCh, disp, workers, resultCh, rep, call, h>>

ctxDone ==
  ctx # "none"

\* repoCtx (line 278) is derived from ctx; repoG also cancels it on a worker's error
repoCtxDone ==
  ctxDone \/ disp.err # Nil

\* ---------------------------------------------------------------- matchRepo
\* a matcher whose two topic filters must be satisfied by one and the same topic
matchRepoSameTopic(f, repo) ==
  /\ (f.nameRegexp.set => repo.name \in f.nameRegexp.v)
  /\ (f.nameSet.set => repo.name \in f.nameSet.v)
  /\ (f.topicRegexp.set /\ ~f.topicSet.set => \E t \in repo.topics : t \in f.topicRegexp.v)
  /\ (f.topicSet.set /\ ~f.topicRegexp.set => \E t \in repo.topics : t \in f.topicSet.v)
  /\ (f.topicRegexp.set /\ f.topicSet.set =>
        \E t \in repo.topics : t \in f.topicRegexp.v /\ t \in f.topicSet.v)

\* lines 444-482; a compiled pattern is the set of strings it matches, a map used
\* as a set is the set of its keys
matchRepoWith(f, repo) ==
  /\ (f.nameRegexp.set => repo.name \in f.nameRegexp.v)
  /\ (f.nameSet.set => repo.name \in f.nameSet.v)
  /\ (f.topicRegexp.set => \E t \in repo.topics : t \in f.topicRegexp.v)
  /\ (f.topicSet.set => \E t \in repo.topics : t \in f.topicSet.v)

matchRepo(repo) ==
  matchRepoWith(rh, repo)

\* --------------------------------------------------------------------- Init
NoRepo ==
  [name |-> 0, topics |-> {}]

NoResult ==
  [k |-> 0, name |-> 0, stdout |-> 0, stderr |-> 0, err |-> Nil]

\* the observations kept for one dispatched repository: whether its clone began
\* under a live or a cancelled context, what the clone would have returned
\* undisturbed and what it returned ("-": no clone), what its command did,
\* whether the command had returned before the context was cancelled, and how often
\* its result was sent, rendered and dropped
NoCall ==
  [fn |-> "none"]

NewEntry(n) ==
  [name |-> n, cloneBegun |-> "-", cloneWill |-> "-", cloneGot |-> "-",
   ran |-> FALSE, err |-> Nil, stdout |-> 0, stderr |-> 0, pre |-> FALSE,
   sent |-> 0, res |-> NoResult, rendered |-> 0, dropped |-> 0,
   printed |-> 0, failed |-> 0]

Init ==
  /\ \E f \in FilterChoices, c \in ConcurrencyChoices, cl \in BOOLEAN,
        setup \in { [overwrite |-> FALSE, root |-> FALSE, dirs |-> {}],
                    [overwrite |-> FALSE, root |-> TRUE,  dirs |-> {1}],
                    [overwrite |-> TRUE,  root |-> TRUE,  dirs |-> {1}] } :
       /\ rh = [nameRegexp |-> f.nameRegexp, nameSet |-> f.nameSet,
                topicRegexp |-> f.topicRegexp, topicSet |-> f.topicSet,
                concurrency |-> c, cleanup |-> cl, overwrite |-> setup.overwrite,
                outputFormat |-> ConsoleOutputFormat]
       /\ fs = [root |-> setup.root, dirs |-> setup.dirs]
  /\ gopc = "overwrite"
  /\ ret = Nil
  /\ ctx = "none"
  /\ gerr = Nil
  /\ disc = [pc |-> "idle", page |-> 0, repos |-> <<>>, next |-> 0, err |-> Nil]
  /\ repoCh = "open"
  /\ disp = [pc |-> "idle", repo |-> NoRepo, err |-> Nil]
  /\ workers = {}
  /\ resultCh = "open"
  /\ rep = [pc |-> "idle", result |-> NoResult]
  /\ call = NoCall
  /\ h = [pageErr |-> Nil, listed |-> 0, matched |-> <<>>, skipped |-> {}, emitted |-> <<>>, emittedOn |-> <<>>, discarded |-> 0, log |-> <<>>]

\* ----------------------------------------------------------- Go: directory setup
\* an overwrite that leaves the root as it found it
GoOverwriteKeepsRoot ==
  /\ gopc = "overwrite"
  /\ gopc' = "mkdir"
  /\ UNCHANGED <<rh, call, fs, ret, ctx, gerr, disc, repoCh, disp, workers, resultCh, rep, h>>

\* lines 243-249: if rh.overwrite, os.RemoveAll(rh.tmpDir); its error is returned
GoOverwrite ==
  /\ gopc = "overwrite"
  /\ UNCHANGED <<rh, call, ctx, gerr, disc, repoCh, disp, workers, resultCh, rep, h>>
  /\ IF rh.overwrite
     THEN \/ /\ fs' = [root |-> FALSE, dirs |-> {}]
             /\ gopc' = "mkdir"
             /\ ret' = ret
          \/ /\ gopc' = "returned"
             /\ ret' = ErrRemoveAll
             /\ fs' = fs
     ELSE /\ gopc' = "mkdir"
          /\ UNCHANGED <<fs, ret>>

\* the three g.Go calls of lines 271, 276, 321
Spawned ==
  /\ disc' = [disc EXCEPT !.pc = "loop"]
  /\ disp' = [disp EXCEPT !.pc = "recv"]
  /\ rep' = [rep EXCEPT !.pc = "recv"]

\* lines 251-258: create the root when it does not exist; then lines 260-343 start the stages
GoMkdir ==
  /\ gopc = "mkdir"
  /\ UNCHANGED <<rh, call, ctx, gerr, repoCh, workers, resultCh, h>>
  /\ IF ~fs.root
     THEN \/ /\ fs' = [root |-> TRUE, dirs |-> {}]
             /\ gopc' = "wait"
             /\ ret' = ret
             /\ Spawned
          \/ /\ gopc' = "returned"
             /\ ret' = ErrMkdir
             /\ UNCHANGED <<fs, disc, disp, rep>>
     ELSE /\ gopc' = "wait"
          /\ UNCHANGED <<fs, ret>>
          /\ Spawned

\* ------------------------------------------------------------- the discoverer
\* errgroup.Group.Go's wrapper around a stage function that returned e:
\* the first non-nil error is kept and cancels the group's context
GroupDone(e) ==
  IF e # Nil
  THEN /\ gerr' = (IF gerr = Nil THEN e ELSE gerr)
       /\ ctx' = (IF ctx = "none" THEN "group" ELSE ctx)
  ELSE UNCHANGED <<gerr, ctx>>

\* a discoverer that closes repoCh on its successful return only
DiscReturnsClosesOnSuccess(d, e) ==
  /\ disc' = [d EXCEPT !.pc = "returned", !.err = e, !.repos = <<>>]
  /\ repoCh' = (IF e = Nil THEN "closed" ELSE repoCh)
  /\ GroupDone(e)

\* lines 271-274: the discoverer's function returns e; the deferred close(repoCh) runs
DiscReturns(d, e) ==
  /\ disc' = [d EXCEPT !.pc = "returned", !.err = e, !.repos = <<>>]
  /\ repoCh' = "closed"
  /\ GroupDone(e)

\* a discoverer that stops after the page it has, whatever its NextPage
DiscAdvanceIgnoresNextPage(d) ==
  IF d.repos # <<>>
  THEN /\ disc' = [d EXCEPT !.pc = "send"]
       /\ UNCHANGED <<repoCh, gerr, ctx>>
  ELSE DiscReturns(d, Nil)

\* lines 377-386: continue the range over the page, or leave it and follow NextPage
DiscAdvance(d) ==
  IF d.repos # <<>>
  THEN /\ disc' = [d EXCEPT !.pc = "send"]
       /\ UNCHANGED <<repoCh, gerr, ctx>>
  ELSE IF d.next = 0
       THEN DiscReturns(d, Nil)
       ELSE /\ disc' = [d EXCEPT !.pc = "loop"]
            /\ UNCHANGED <<repoCh, gerr, ctx>>

\* a discoverer that never looks at the context
DiscNeverSeesCancel ==
  FALSE

\* the select of lines 368-372
DiscSeesCancel ==
  ctxDone

\* lines 367-373: check the context, then issue the page request
DiscRequest ==
  /\ disc.pc = "loop"
  /\ UNCHANGED <<rh, call, fs, gopc, ret, disp, workers, resultCh, rep, h>>
  /\ IF DiscSeesCancel
     THEN DiscReturns(disc, Canceled)
     ELSE /\ disc' = [disc EXCEPT !.pc = "fetch", !.page = @ + 1]
          /\ UNCHANGED <<repoCh, gerr, ctx>>

\* the error a failed page request returns: the API's, or the context's when it was cancelled
PageErrors ==
  IF ctxDone THEN {ErrApi, Canceled} ELSE {ErrApi}

\* a discoverer that ends quietly on a failed page request
PageErrorSwallowed(e) ==
  Nil

\* line 375: what the discoverer returns when the page request returned e
PageErrorReturn(e) ==
  e

\* lines 373-376: the page request returns an error
DiscPageError ==
  /\ disc.pc = "fetch"
  /\ \E e \in PageErrors :
       /\ DiscReturns(disc, PageErrorReturn(e))
       /\ h' = [h EXCEPT !.pageErr = e]
  /\ UNCHANGED <<rh, call, fs, gopc, ret, disp, workers, resultCh, rep>>

\* a discoverer that sends every listed repository
MatchingUnfiltered(page) ==
  page

\* the repositories of a page that are sent on the channel, in listing order (lines 377-381)
Matching(page) ==
  SelectSeq(page, matchRepo)

NamesOf(repos) ==
  [i \in DOMAIN repos |-> repos[i].name]

\* lines 373, 377-386: the page request returns a page and its NextPage
DiscPage ==
  /\ disc.pc = "fetch"
  /\ \E page \in PageChoices, more \in BOOLEAN :
       /\ h.listed + Len(page) <= MaxListed
       /\ more => disc.page < MaxPages
       /\ h' = [h EXCEPT !.listed = @ + Len(page),
                         !.matched = @ \o NamesOf(SelectSeq(page, matchRepo)),
                         !.skipped = @ \cup {page[i].name : i \in {j \in DOMAIN page : ~matchRepo(page[j])}}]
       /\ DiscAdvance([disc EXCEPT !.repos = Matching(page),
                                   !.next = IF more THEN disc.page + 1 ELSE 0])
  /\ UNCHANGED <<rh, call, fs, gopc, ret, disp, workers, resultCh, rep>>

\* ------------------------------------------------------------- the dispatcher
\* line 379 and line 280: the send on repoCh meets the dispatcher's receive
SendRepo ==
  /\ disc.pc = "send"
  /\ disp.pc = "recv"
  /\ disp' = [disp EXCEPT !.pc = "check", !.repo = Head(disc.repos)]
  /\ h' = [h EXCEPT !.emitted = Append(@, Head(disc.repos).name),
                    !.emittedOn = Append(@, disc.page)]
  /\ DiscAdvance([disc EXCEPT !.repos = Tail(@)])
  /\ UNCHANGED <<rh, call, fs, gopc, ret, workers, resultCh, rep>>

\* a group without any limit
SlotFreeAlways ==
  TRUE

\* a limit for which a negative value is no sentinel
SlotFreeNoSentinel ==
  Cardinality(workers) < rh.concurrency

\* a limit that admits one worker too many
SlotFreeOffByOne ==
  rh.concurrency < 0 \/ Cardinality(workers) <= rh.concurrency

\* errgroup.SetLimit(rh.concurrency) (line 279): Go blocks while the limit is reached;
\* a negative limit is no limit
SlotFree ==
  rh.concurrency < 0 \/ Cardinality(workers) < rh.concurrency

\* line 285: repoG.Go starts a worker for the repository the dispatcher holds
StartWorker ==
  /\ workers' = workers \cup
       {[k |-> Len(h.log) + 1, name |-> disp.repo.name, pc |-> "stat",
         stdoutBuf |-> 0, stderrBuf |-> 0, err |-> Nil]}
  /\ h' = [h EXCEPT !.log = Append(@, NewEntry(disp.repo.name))]
  /\ disp' = [disp EXCEPT !.pc = "recv", !.repo = NoRepo]

\* lines 281-285: the select on ctx.Done() for the repository just received: after
\* the cancellation it is only logged about; otherwise repoG.Go is called, which
\* starts the worker at once when a slot is free and blocks when none is
DispCheck ==
  /\ disp.pc = "check"
  /\ IF ctxDone
     THEN /\ disp' = [disp EXCEPT !.pc = "recv", !.repo = NoRepo]
          /\ h' = [h EXCEPT !.discarded = @ + 1]
          /\ workers' = workers
     ELSE IF SlotFree
          THEN StartWorker
          ELSE /\ disp' = [disp EXCEPT !.pc = "go"]
               /\ UNCHANGED <<h, workers>>
  /\ UNCHANGED <<rh, call, fs, gopc, ret, ctx, gerr, disc, repoCh, resultCh, rep>>

\* line 285: the dispatcher blocked in repoG.Go gets a slot and starts the worker
DispGo ==
  /\ disp.pc = "go"
  /\ SlotFree
  /\ StartWorker
  /\ UNCHANGED <<rh, call, fs, gopc, ret, ctx, gerr, disc, repoCh, resultCh, rep>>

\* a dispatcher that returns without waiting for its workers
DispReturnWithoutWait ==
  /\ disp.pc = "recv"
  /\ repoCh = "closed"
  /\ disp' = [disp EXCEPT !.pc = "returned"]
  /\ resultCh' = "closed"
  /\ GroupDone(disp.err)
  /\ UNCHANGED <<rh, call, fs, gopc, ret, disc, repoCh, workers, rep, h>>

\* lines 280, 318 and 277: the range ends when repoCh is closed; once every worker
\* has returned, repoG.Wait() returns repoG's first error, the dispatcher returns it
\* and the deferred close(resultCh) runs
DispReturn ==
  /\ disp.pc = "recv"
  /\ repoCh = "closed"
  /\ workers = {}
  /\ disp' = [disp EXCEPT !.pc = "returned"]
  /\ resultCh' = "closed"
  /\ GroupDone(disp.err)
  /\ UNCHANGED <<rh, call, fs, gopc, ret, disc, repoCh, workers, rep, h>>

\* --------------------------------------------------------------- the workers
\* what a clone can return that would, left undisturbed, return `will`: cloneRepo passes
\* repoCtx to git.PlainCloneContext (line 503), which gives up when the context is done
CloneOutcomes(will) ==
  IF repoCtxDone THEN {will, Canceled} ELSE {will}

\* a stat that never finds the directory
DirNeverFound(w) ==
  TRUE

\* line 287: os.Stat(repoDir) fails with os.ErrNotExist
DirMissing(w) ==
  w.name \notin fs.dirs

\* lines 286-288: stat of the repository directory; clone when it does not exist,
\* otherwise go on to run the command (lines 295-303)
WStat(w) ==
  /\ w.pc = "stat"
  /\ IF ~DirMissing(w)
     THEN /\ workers' = (workers \ {w}) \cup {[w EXCEPT !.pc = "exec"]}
          /\ h' = h
     ELSE /\ workers' = (workers \ {w}) \cup {[w EXCEPT !.pc = "clone"]}
          /\ h' = [h EXCEPT !.log[w.k].cloneBegun = IF repoCtxDone THEN "cancelled" ELSE "live"]
  /\ UNCHANGED <<rh, call, fs, gopc, ret, ctx, gerr, disc, repoCh, disp, resultCh, rep>>

\* a worker that returns its clone error to repoG
CloneFailureReturnsError(e) ==
  e

\* line 291: what the worker returns to repoG when its clone failed with e
CloneFailureReturn(e) ==
  Nil

\* errgroup.Group.Go's wrapper around a worker that returned e: repoG keeps its first error
WorkerDone(e) ==
  disp' = [disp EXCEPT !.err = IF @ = Nil THEN e ELSE @]

\* lines 288-292: the clone returns (will: what it returns when left undisturbed);
\* on an error the worker logs it and returns
WCloneEnd(w) ==
  /\ w.pc = "clone"
  /\ \E will \in {Nil, ErrClone} : \E got \in CloneOutcomes(will) :
       /\ h' = [h EXCEPT !.log[w.k].cloneWill = will, !.log[w.k].cloneGot = got]
       /\ IF got = Nil
          THEN /\ fs' = [fs EXCEPT !.dirs = @ \cup {w.name}]
               /\ workers' = (workers \ {w}) \cup {[w EXCEPT !.pc = "exec"]}
               /\ disp' = disp
          ELSE /\ fs' = fs
               /\ workers' = workers \ {w}
               /\ WorkerDone(CloneFailureReturn(got))
  /\ UNCHANGED <<rh, call, gopc, ret, ctx, gerr, disc, repoCh, resultCh, rep>>

\* what the command writes when run in the directory of `name` and ending with `e`
CommandOutput(name, e) ==
  [stdout |-> name, stderr |-> IF e = Nil THEN 0 ELSE name]

\* lines 301-306, 484-493: execCommand returns; the command is not bound to any context
WExecEnd(w) ==
  /\ w.pc = "exec"
  /\ \E e \in {Nil, ErrExit} :
       LET out == CommandOutput(w.name, e)
       IN  /\ workers' = (workers \ {w}) \cup
                {[w EXCEPT !.pc = "send", !.err = e, !.stdoutBuf = out.stdout,
                           !.stderrBuf = out.stderr]}
           /\ h' = [h EXCEPT !.log[w.k].ran = TRUE, !.log[w.k].err = e,
                             !.log[w.k].stdout = out.stdout, !.log[w.k].stderr = out.stderr,
                             !.log[w.k].pre = ~ctxDone]
  /\ UNCHANGED <<rh, call, fs, gopc, ret, ctx, gerr, disc, repoCh, disp, resultCh, rep>>

\* a result that leaves the command's error out
ResultOfWithoutError(w) ==
  [k |-> w.k, name |-> w.name, stdout |-> w.stdoutBuf, stderr |-> w.stderrBuf,
   err |-> Nil]

\* lines 307-313: the executionResult built from the buffers and the command's error
\* (k: the dispatch it belongs to)
ResultOf(w) ==
  [k |-> w.k, name |-> w.name, stdout |-> w.stdoutBuf, stderr |-> w.stderrBuf,
   err |-> w.err]

\* a cleanup that keeps the directory of a repository whose command failed
AfterRepoCleanupOnSuccess(w) ==
  IF rh.cleanup /\ w.err = Nil THEN [fs EXCEPT !.dirs = @ \ {w.name}] ELSE fs

\* lines 295-299: the directory tree after the worker's deferred os.RemoveAll(repoDir),
\* which is registered only when rh.cleanup is set
AfterRepoCleanup(w) ==
  IF rh.cleanup THEN [fs EXCEPT !.dirs = @ \ {w.name}] ELSE fs

\* lines 307-314 and 295-299: the send on resultCh meets the reporter's receive
\* (line 322); the worker then returns nil, running its deferred os.RemoveAll(repoDir)
WSend(w) ==
  /\ w.pc = "send"
  /\ rep.pc = "recv"
  /\ rep' = [pc |-> "check", result |-> ResultOf(w)]
  /\ h' = [h EXCEPT !.log[w.k].sent = @ + 1, !.log[w.k].res = ResultOf(w)]
  /\ workers' = workers \ {w}
  /\ fs' = AfterRepoCleanup(w)
  /\ WorkerDone(Nil)
  /\ UNCHANGED <<rh, call, gopc, ret, ctx, gerr, disc, repoCh, resultCh>>

WorkerStat ==
  \E w \in workers : WStat(w)

WorkerCloneEnd ==
  \E w \in workers : WCloneEnd(w)

WorkerExecEnd ==
  \E w \in workers : WExecEnd(w)

WorkerSend ==
  \E w \in workers : WSend(w)

\* --------------------------------------------------------------- the reporter
\* a reporter that prints whatever the format
RenderOutcomesAlwaysPrinted ==
  {"printed"}

\* lines 327-339: what the switch on rh.outputFormat does with a result: the JSON
\* form is printed unless json.Marshal fails, the console form is printed, and
\* for any other format an error is logged and nothing printed
RenderOutcomes ==
  IF rh.outputFormat = JsonOutputFormat THEN {"printed", "failed"}
  ELSE IF rh.outputFormat = ConsoleOutputFormat THEN {"printed"}
  ELSE {"failed"}

\* lines 323-340: the select on ctx.Done() for the result just received; a result
\* received after the cancellation is only logged about, otherwise it is rendered
RepCheck ==
  /\ rep.pc = "check"
  /\ IF ctxDone
     THEN h' = [h EXCEPT !.log[rep.result.k].dropped = @ + 1]
     ELSE \E o \in RenderOutcomes :
            h' = [h EXCEPT !.log[rep.result.k].rendered = @ + 1,
                           !.log[rep.result.k].printed = IF o = "printed" THEN @ + 1 ELSE @,
                           !.log[rep.result.k].failed = IF o = "failed" THEN @ + 1 ELSE @]
  /\ rep' = [pc |-> "recv", result |-> NoResult]
  /\ UNCHANGED <<rh, call, fs, gopc, ret, ctx, gerr, disc, repoCh, disp, workers, resultCh>>

\* lines 322, 342: the range ends when resultCh is closed; the reporter returns nil
RepClosed ==
  /\ rep.pc = "recv"
  /\ resultCh = "closed"
  /\ rep' = [rep EXCEPT !.pc = "returned"]
  /\ UNCHANGED <<rh, call, fs, gopc, ret, ctx, gerr, disc, repoCh, disp, workers, resultCh, h>>

\* ------------------------------------------------------------- Go: the return
\* a return that leaves the root in place
GoReturnKeepsRoot ==
  /\ gopc = "wait"
  /\ disc.pc = "returned"
  /\ disp.pc = "returned"
  /\ rep.pc = "returned"
  /\ gopc' = "returned"
  /\ ret' = gerr
  /\ ctx' = (IF ctx = "none" THEN "wait" ELSE ctx)
  /\ UNCHANGED <<rh, call, fs, gerr, disc, repoCh, disp, workers, resultCh, rep, h>>

\* line 345 and lines 260-265: g.Wait() returns the group's first error once the
\* three stages have returned (cancelling the context); the deferred removal of
\* the root runs when cleanup is set
GoReturn ==
  /\ gopc = "wait"
  /\ disc.pc = "returned"
  /\ disp.pc = "returned"
  /\ rep.pc = "returned"
  /\ gopc' = "returned"
  /\ ret' = gerr
  /\ ctx' = (IF ctx = "none" THEN "wait" ELSE ctx)
  /\ fs' = IF rh.cleanup THEN [root |-> FALSE, dirs |-> {}] ELSE fs
  /\ UNCHANGED <<rh, call, gerr, disc, repoCh, disp, workers, resultCh, rep, h>>

\* the caller of Go cancels the context it passed in
CallerCancel ==
  /\ gopc = "wait"
  /\ ctx = "none"
  /\ ctx' = "caller"
  /\ UNCHANGED <<rh, call, fs, gopc, ret, gerr, disc, repoCh, disp, workers, resultCh, rep, h>>

\* ----------------------------------------------------------- specifications
Next ==
  \/ GoOverwrite
  \/ GoMkdir
  \/ DiscRequest
  \/ DiscPageError
  \/ DiscPage
  \/ SendRepo
  \/ DispCheck
  \/ DispGo
  \/ DispReturn
  \/ WorkerStat
  \/ WorkerCloneEnd
  \/ WorkerExecEnd
  \/ WorkerSend
  \/ RepCheck
  \/ RepClosed
  \/ GoReturn

\* Go as the repository calls it: RunWithArgs and the test pass context.Background()
Spec ==
  Init /\ [][Next]_vars

NextCancel ==
  \/ Next
  \/ CallerCancel

\* Go called with a context its caller may cancel
SpecCancel ==
  Init /\ [][NextCancel]_vars

\* the Go scheduler runs every runnable goroutine, and every page request, clone
\* and command terminates
FairSpec ==
  Spec /\ WF_vars(Next)

\* ------------------------------------------------- matchRepo called on its own
\* the values an optional filter over S can be given by its option
OptionChoices(S) ==
  {Unset} \cup {Some(v) : v \in SUBSET S}

AllFilters ==
  [nameRegexp : OptionChoices(Names), nameSet : OptionChoices(Names),
   topicRegexp : OptionChoices(Topics), topicSet : OptionChoices(Topics)]

\* the repositories a listing can contain
AllRepos ==
  [name : Names, topics : SUBSET Topics]

\* Go has not been called
PipelineIdle ==
  /\ fs = [root |-> FALSE, dirs |-> {}]
  /\ gopc = "overwrite"
  /\ ret = Nil
  /\ ctx = "none"
  /\ gerr = Nil
  /\ disc = [pc |-> "idle", page |-> 0, repos |-> <<>>, next |-> 0, err |-> Nil]
  /\ repoCh = "open"
  /\ disp = [pc |-> "idle", repo |-> NoRepo, err |-> Nil]
  /\ workers = {}
  /\ resultCh = "open"
  /\ rep = [pc |-> "idle", result |-> NoResult]
  /\ call = NoCall
  /\ h = [pageErr |-> Nil, listed |-> 0, matched |-> <<>>, skipped |-> {}, emitted |-> <<>>,
          emittedOn |-> <<>>, discarded |-> 0, log |-> <<>>]

\* an executor constructed with any combination of the four filter options
InitMatch ==
  /\ rh \in AllFilters
  /\ PipelineIdle

\* rh.matchRepo(repo) is called and returns
MatchRepoCall ==
  /\ \E repo \in AllRepos :
       call' = [fn |-> "matchRepo", repo |-> repo, out |-> matchRepo(repo)]
  /\ UNCHANGED <<rh, fs, gopc, ret, ctx, gerr, disc, repoCh, disp, workers, resultCh, rep, h>>

SpecMatch ==
  InitMatch /\ [][MatchRepoCall]_vars

\* the limits WithConcurrency accepts (lines 173-178): any integer, zero included
LimitChoices ==
  ConcurrencyChoices \cup {0}

\* Go run with any limit WithConcurrency accepts
InitAnyLimit ==
  /\ \E f \in FilterChoices, c \in LimitChoices, cl \in BOOLEAN,
        setup \in { [overwrite |-> FALSE, root |-> FALSE, dirs |-> {}],
                    [overwrite |-> TRUE,  root |-> TRUE,  dirs |-> {1}] } :
       /\ rh = [nameRegexp |-> f.nameRegexp, nameSet |-> f.nameSet,
                topicRegexp |-> f.topicRegexp, topicSet |-> f.topicSet,
                concurrency |-> c, cleanup |-> cl, overwrite |-> setup.overwrite,
                outputFormat |-> ConsoleOutputFormat]
       /\ fs = [root |-> setup.root, dirs |-> setup.dirs]
  /\ gopc = "overwrite"
  /\ ret = Nil
  /\ ctx = "none"
  /\ gerr = Nil
  /\ disc = [pc |-> "idle", page |-> 0, repos |-> <<>>, next |-> 0, err |-> Nil]
  /\ repoCh = "open"
  /\ disp = [pc |-> "idle", repo |-> NoRepo, err |-> Nil]
  /\ workers = {}
  /\ resultCh = "open"
  /\ rep = [pc |-> "idle", result |-> NoResult]
  /\ call = NoCall
  /\ h = [pageErr |-> Nil, listed |-> 0, matched |-> <<>>, skipped |-> {}, emitted |-> <<>>,
          emittedOn |-> <<>>, discarded |-> 0, log |-> <<>>]

\* every runnable goroutine is scheduled, and every page request, clone and command
\* terminates
FairSpecAnyLimit ==
  InitAnyLimit /\ [][Next]_vars /\ WF_vars(Next)

\* Go run on a longer listing, with a positive limit and no filter
InitLongListing ==
  /\ Init
  /\ rh.concurrency > 0
  /\ rh.nameSet = Unset
  /\ ~rh.overwrite

\* lines 374-385 on the longer listing: a page of repositories arrives; those that
\* pass matchRepo are to be sent, in the order of the page
DiscPageLong ==
  /\ disc.pc = "fetch"
  /\ \E page \in PageChoices, more \in BOOLEAN :
       /\ h.listed + Len(page) <= MaxLongListed
       /\ more => disc.page < MaxPages
       /\ h' = [h EXCEPT !.listed = @ + Len(page),
                         !.matched = @ \o NamesOf(SelectSeq(page, matchRepo)),
                         !.skipped = @ \cup {page[i].name : i \in {j \in DOMAIN page : ~matchRepo(page[j])}}]
       /\ DiscAdvance([disc EXCEPT !.repos = Matching(page),
                                   !.next = IF more THEN disc.page + 1 ELSE 0])
  /\ UNCHANGED <<rh, call, fs, gopc, ret, disp, workers, resultCh, rep>>

NextLongListing ==
  \/ GoOverwrite
  \/ GoMkdir
  \/ DiscRequest
  \/ DiscPageError
  \/ DiscPageLong
  \/ SendRepo
  \/ DispCheck
  \/ DispGo
  \/ DispReturn
  \/ WorkerStat
  \/ WorkerCloneEnd
  \/ WorkerExecEnd
  \/ WorkerSend
  \/ RepCheck
  \/ RepClosed
  \/ GoReturn

\* Go on the longer listing, as the repository calls it
SpecLongListing ==
  InitLongListing /\ [][NextLongListing]_vars

\* Go run with any output format WithOutputFormat can set (lines 180-185), limit 1
InitRender ==
  /\ \E o \in OutputFormats :
       rh = [nameRegexp |-> Unset, nameSet |-> Unset, topicRegexp |-> Unset,
             topicSet |-> Unset, concurrency |-> 1, cleanup |-> FALSE,
             overwrite |-> FALSE, outputFormat |-> o]
  /\ PipelineIdle

SpecRender ==
  InitRender /\ [][Next]_vars

\* ------------------------------------------- getRepositories called on its own
\* organization names, user names and tokens are strings; 1..NumOwners stands for them
Owners ==
  1..NumOwners

OwnerChoices ==
  {Unset} \cup {Some(o) : o \in Owners}

\* WithUserAuth sets authUser and authToken together (lines 144-150)
AuthChoices ==
  {[authUser |-> Unset, authToken |-> Unset]}
    \cup {[authUser |-> Some(u), authToken |-> Some(t)] : u \in Owners, t \in Owners}

\* an executor constructed with any combination of WithOrg, WithUser and WithUserAuth
InitOwner ==
  /\ \E org \in OwnerChoices, user \in OwnerChoices, auth \in AuthChoices :
       rh = [org |-> org, user |-> user,
             authUser |-> auth.authUser, authToken |-> auth.authToken]
  /\ PipelineIdle

\* a resolution for which credentials alone select the authenticated caller
getRepositoriesCredentialsSuffice ==
  IF rh.org.set
  THEN [listing |-> "ListByOrg", owner |-> rh.org.v, err |-> Nil]
  ELSE IF rh.authUser.set /\ rh.authToken.set
            /\ (rh.user.set => rh.authUser.v = rh.user.v)
  THEN [listing |-> "ListByAuthenticatedUser", owner |-> 0, err |-> Nil]
  ELSE IF rh.user.set
  THEN [listing |-> "ListByUser", owner |-> rh.user.v, err |-> Nil]
  ELSE [listing |-> "none", owner |-> 0, err |-> ErrNoOwner]

\* a resolution that looks at the named user before the organization
getRepositoriesUserFirst ==
  IF rh.authUser.set /\ rh.authToken.set /\ rh.user.set /\ rh.authUser.v = rh.user.v
  THEN [listing |-> "ListByAuthenticatedUser", owner |-> 0, err |-> Nil]
  ELSE IF rh.user.set
  THEN [listing |-> "ListByUser", owner |-> rh.user.v, err |-> Nil]
  ELSE IF rh.org.set
  THEN [listing |-> "ListByOrg", owner |-> rh.org.v, err |-> Nil]
  ELSE [listing |-> "none", owner |-> 0, err |-> ErrNoOwner]

\* lines 348-361: the listing that getRepositories hands the run to, and the owner
\* it lists (0: the listing takes none), or the error it returns without listing
getRepositories ==
  IF rh.org.set
  THEN [listing |-> "ListByOrg", owner |-> rh.org.v, err |-> Nil]
  ELSE IF rh.authUser.set /\ rh.authToken.set /\ rh.user.set /\ rh.authUser.v = rh.user.v
  THEN [listing |-> "ListByAuthenticatedUser", owner |-> 0, err |-> Nil]
  ELSE IF rh.user.set
  THEN [listing |-> "ListByUser", owner |-> rh.user.v, err |-> Nil]
  ELSE [listing |-> "none", owner |-> 0, err |-> ErrNoOwner]

\* rh.getRepositories is called and has chosen its listing
GetRepositoriesCall ==
  /\ call' = [fn |-> "getRepositories", out |-> getRepositories]
  /\ UNCHANGED <<rh, fs, gopc, ret, ctx, gerr, disc, repoCh, disp, workers, resultCh, rep, h>>

SpecOwner ==
  InitOwner /\ [][GetRepositoriesCall]_vars

\* ------------------------------------------------------ NewRepositoryExecutor
\* the options a caller can pass: what each sets, and the error it returns
\* (regexp.Compile's, for a pattern that does not compile)
Options ==
  { [name |-> "WithCleanup", err |-> Nil],
    [name |-> "WithNameRegexp", err |-> Nil],
    [name |-> "WithNameRegexp", err |-> ErrNameExp],
    [name |-> "WithTopicRegexp", err |-> Nil],
    [name |-> "WithTopicRegexp", err |-> ErrTopicExp] }

OptionLists ==
  SeqsUpTo(Options, MaxOpts)

\* no executor
NilExec ==
  [nil |-> TRUE]

\* lines 224-230: the executor before any option is applied
DefaultExec ==
  [nil |-> FALSE, nameRegexp |-> Unset, topicRegexp |-> Unset,
   concurrency |-> 1, cleanup |-> FALSE]

\* lines 74-192: the executor after the option has run on it and returned nil
Applied(exec, opt) ==
  IF opt.name = "WithCleanup" THEN [exec EXCEPT !.cleanup = TRUE]
  ELSE IF opt.name = "WithNameRegexp" THEN [exec EXCEPT !.nameRegexp = Some(Names)]
  ELSE [exec EXCEPT !.topicRegexp = Some(Topics)]

InitNew ==
  /\ rh = NilExec
  /\ PipelineIdle

\* lines 218-230: NewRepositoryExecutor(opts...) is called; os.Getwd fails, or the
\* executor is made with its defaults
NewGetwd ==
  /\ call = NoCall
  /\ \E opts \in OptionLists :
       \/ /\ call' = [fn |-> "NewRepositoryExecutor", opts |-> opts, pc |-> "returned",
                       i |-> 1, called |-> <<>>, out |-> NilExec, err |-> ErrGetwd]
          /\ rh' = rh
       \/ /\ call' = [fn |-> "NewRepositoryExecutor", opts |-> opts, pc |-> "loop",
                       i |-> 1, called |-> <<>>, out |-> NilExec, err |-> Nil]
          /\ rh' = DefaultExec
  /\ UNCHANGED <<fs, gopc, ret, ctx, gerr, disc, repoCh, disp, workers, resultCh, rep, h>>

\* a loop that notes an option's error and goes on with the next option
NewApplyOptionGoesOn ==
  /\ call.fn = "NewRepositoryExecutor"
  /\ call.pc = "loop"
  /\ call.i <= Len(call.opts)
  /\ LET opt == call.opts[call.i]
     IN  /\ rh' = (IF opt.err = Nil THEN Applied(rh, opt) ELSE rh)
         /\ call' = [call EXCEPT !.called = Append(@, opt), !.i = @ + 1,
                                 !.err = IF opt.err # Nil THEN opt.err ELSE @]
  /\ UNCHANGED <<fs, gopc, ret, ctx, gerr, disc, repoCh, disp, workers, resultCh, rep, h>>

\* lines 232-237: one turn of the loop: the next option runs on the executor; its
\* error ends the construction with (nil, err)
NewApplyOption ==
  /\ call.fn = "NewRepositoryExecutor"
  /\ call.pc = "loop"
  /\ call.i <= Len(call.opts)
  /\ LET opt == call.opts[call.i]
     IN  IF opt.err = Nil
         THEN /\ rh' = Applied(rh, opt)
              /\ call' = [call EXCEPT !.called = Append(@, opt), !.i = @ + 1]
         ELSE /\ rh' = rh
              /\ call' = [call EXCEPT !.called = Append(@, opt), !.pc = "returned",
                                      !.out = NilExec, !.err = opt.err]
  /\ UNCHANGED <<fs, gopc, ret, ctx, gerr, disc, repoCh, disp, workers, resultCh, rep, h>>

\* line 239: the loop is over: return exec, nil
NewReturn ==
  /\ call.fn = "NewRepositoryExecutor"
  /\ call.pc = "loop"
  /\ call.i > Len(call.opts)
  /\ call' = [call EXCEPT !.pc = "returned", !.out = rh]
  /\ UNCHANGED <<rh, fs, gopc, ret, ctx, gerr, disc, repoCh, disp, workers, resultCh, rep, h>>

NextNew ==
  \/ NewGetwd
  \/ NewApplyOption
  \/ NewReturn

SpecNew ==
  InitNew /\ [][NextNew]_vars

\* ---------------------------------------------------------------- RunWithArgs
\* the command-line arguments: a pattern is absent, compiles or does not compile;
\* the name list file is absent, unreadable or readable; the command is empty or not
ArgsChoices ==
  [nameExp : {"unset", "valid", "invalid"}, topicExp : {"unset", "invalid"},
   nameList : {"unset", "unreadable"}, command : {"", "cmd"},
   overwrite : BOOLEAN, cleanup : BOOLEAN]

\* the executor has not been built and Go has not been called; the working root
\* is absent, or is there with repository 1 in it
InitRun ==
  /\ rh = NilExec
  /\ fs \in {[root |-> FALSE, dirs |-> {}], [root |-> TRUE, dirs |-> {1}]}
  /\ gopc = "notcalled"
  /\ ret = Nil
  /\ ctx = "none"
  /\ gerr = Nil
  /\ disc = [pc |-> "idle", page |-> 0, repos |-> <<>>, next |-> 0, err |-> Nil]
  /\ repoCh = "open"
  /\ disp = [pc |-> "idle", repo |-> NoRepo, err |-> Nil]
  /\ workers = {}
  /\ resultCh = "open"
  /\ rep = [pc |-> "idle", result |-> NoResult]
  /\ \E a \in ArgsChoices : call = [fn |-> "RunWithArgs", args |-> a, pc |-> "new", fs0 |-> fs]
  /\ h = [pageErr |-> Nil, listed |-> 0, matched |-> <<>>, skipped |-> {}, emitted |-> <<>>,
          emittedOn |-> <<>>, discarded |-> 0, log |-> <<>>]

\* ghforeach.go lines 89-137: the options are collected (reading the name list
\* file) and NewRepositoryExecutor runs them; the first error is returned
RunNew ==
  /\ call.fn = "RunWithArgs"
  /\ call.pc = "new"
  /\ LET a == call.args
     IN  IF a.nameList = "unreadable"
         THEN /\ ret' = ErrReadFile
              /\ call' = [call EXCEPT !.pc = "returned"]
              /\ rh' = rh
         ELSE IF a.nameExp = "invalid"
         THEN /\ ret' = ErrNameExp
              /\ call' = [call EXCEPT !.pc = "returned"]
              /\ rh' = rh
         ELSE IF a.topicExp = "invalid"
         THEN /\ ret' = ErrTopicExp
              /\ call' = [call EXCEPT !.pc = "returned"]
              /\ rh' = rh
         ELSE /\ ret' = ret
              /\ call' = [call EXCEPT !.pc = "command"]
              /\ rh' = [nameRegexp |-> IF a.nameExp = "valid" THEN Some({1}) ELSE Unset,
                        nameSet |-> Unset, topicRegexp |-> Unset, topicSet |-> Unset,
                        concurrency |-> 1, cleanup |-> a.cleanup, overwrite |-> a.overwrite,
                        outputFormat |-> ConsoleOutputFormat]
  /\ UNCHANGED <<fs, gopc, ctx, gerr, disc, repoCh, disp, workers, resultCh, rep, h>>

\* a run that takes the command as it comes
RunCommandUnchecked ==
  /\ call.fn = "RunWithArgs"
  /\ call.pc = "command"
  /\ gopc' = "overwrite"
  /\ call' = [call EXCEPT !.pc = "go"]
  /\ UNCHANGED <<rh, fs, ret, ctx, gerr, disc, repoCh, disp, workers, resultCh, rep, h>>

\* ghforeach.go lines 138-141: an empty command is an error; otherwise Go is entered
RunCommandCheck ==
  /\ call.fn = "RunWithArgs"
  /\ call.pc = "command"
  /\ IF call.args.command = ""
     THEN /\ ret' = ErrNoCommand
          /\ call' = [call EXCEPT !.pc = "returned"]
          /\ gopc' = gopc
     ELSE /\ ret' = ret
          /\ call' = [call EXCEPT !.pc = "go"]
          /\ gopc' = "overwrite"
  /\ UNCHANGED <<rh, fs, ctx, gerr, disc, repoCh, disp, workers, resultCh, rep, h>>

NextRun ==
  \/ RunNew
  \/ RunCommandCheck
  \/ Next

\* the program as started from the command line
SpecRun ==
  InitRun /\ [][NextRun]_vars

\* ------------------------------------------- RunWithArgs: owner and credentials
\* the owner and credential arguments of the command line (ghforeach.go lines 35-40)
OwnerArgsChoices ==
  [org : OwnerChoices, user : OwnerChoices, authUser : OwnerChoices, authToken : OwnerChoices]

\* RunWithArgs called with any owner and credential arguments; no executor yet
InitCredentials ==
  /\ rh = [org |-> Unset, user |-> Unset, authUser |-> Unset, authToken |-> Unset]
  /\ fs = [root |-> FALSE, dirs |-> {}]
  /\ gopc = "notcalled"
  /\ ret = Nil
  /\ ctx = "none"
  /\ gerr = Nil
  /\ disc = [pc |-> "idle", page |-> 0, repos |-> <<>>, next |-> 0, err |-> Nil]
  /\ repoCh = "open"
  /\ disp = [pc |-> "idle", repo |-> NoRepo, err |-> Nil]
  /\ workers = {}
  /\ resultCh = "open"
  /\ rep = [pc |-> "idle", result |-> NoResult]
  /\ \E a \in OwnerArgsChoices :
       call = [fn |-> "RunWithArgs", args |-> a, pc |-> "new",
               out |-> [listing |-> "none", owner |-> 0, err |-> Nil],
               auth |-> [set |-> FALSE, Username |-> 0, Password |-> 0]]
  /\ h = [pageErr |-> Nil, listed |-> 0, matched |-> <<>>, skipped |-> {}, emitted |-> <<>>,
          emittedOn |-> <<>>, discarded |-> 0, log |-> <<>>]

\* ghforeach.go lines 99-101 with lines 144-150 of the executor: WithUserAuth is
\* added when both arguments are given, and it is called with the token in the
\* place of the user as well as in the place of the token
RunUserAuth(a) ==
  IF a.authUser.set /\ a.authToken.set
  THEN [authUser |-> Some(a.authToken.v), authToken |-> Some(a.authToken.v)]
  ELSE [authUser |-> Unset, authToken |-> Unset]

\* ghforeach.go lines 99-107 and 134: the executor is built with WithUserAuth,
\* WithOrg and WithUser for the arguments that are given
RunOwnerOptions ==
  /\ call.fn = "RunWithArgs"
  /\ call.pc = "new"
  /\ rh' = [org |-> call.args.org, user |-> call.args.user,
            authUser |-> RunUserAuth(call.args).authUser,
            authToken |-> RunUserAuth(call.args).authToken]
  /\ call' = [call EXCEPT !.pc = "built"]
  /\ UNCHANGED <<fs, gopc, ret, ctx, gerr, disc, repoCh, disp, workers, resultCh, rep, h>>

\* line 273: the discoverer of the run calls getRepositories, which chooses the listing
RunGetRepositories ==
  /\ call.fn = "RunWithArgs"
  /\ call.pc = "built"
  /\ call' = [call EXCEPT !.pc = "listed", !.out = getRepositories]
  /\ UNCHANGED <<rh, fs, gopc, ret, ctx, gerr, disc, repoCh, disp, workers, resultCh, rep, h>>

\* lines 496-502: the credentials cloneRepo gives to git, when the executor has both
cloneRepoAuth ==
  IF rh.authUser.set /\ rh.authToken.set
  THEN [set |-> TRUE, Username |-> rh.authUser.v, Password |-> rh.authToken.v]
  ELSE [set |-> FALSE, Username |-> 0, Password |-> 0]

\* line 288: a worker of the run clones a listed repository
RunCloneRepo ==
  /\ call.fn = "RunWithArgs"
  /\ call.pc = "listed"
  /\ call.out.err = Nil
  /\ call' = [call EXCEPT !.pc = "cloned", !.auth = cloneRepoAuth]
  /\ UNCHANGED <<rh, fs, gopc, ret, ctx, gerr, disc, repoCh, disp, workers, resultCh, rep, h>>

NextCredentials ==
  \/ RunOwnerOptions
  \/ RunGetRepositories
  \/ RunCloneRepo

\* the owner and the credentials of a run, from the command line to the listing
\* and the clone
SpecCredentials ==
  InitCredentials /\ [][NextCredentials]_vars

\* ===================================================================== claims
\* ------------------------------------------------------------ shared notions
\* the dispatches so far: the workers started, in the order of their start
Dispatched ==
  DOMAIN h.log

Range(seq) ==
  {seq[i] : i \in DOMAIN seq}

SetupFailed ==
  ret \in {ErrRemoveAll, ErrMkdir}

CloneFailed(k) ==
  h.log[k].cloneGot \notin {"-", Nil}

\* the result of dispatch k was sent once and says what the command did
Reported(k) ==
  /\ h.log[k].sent = 1
  /\ h.log[k].res.name = h.log[k].name
  /\ h.log[k].res.err = h.log[k].err
  /\ h.log[k].res.stdout = h.log[k].stdout
  /\ h.log[k].res.stderr = h.log[k].stderr

\* C1: with a concurrency limit N > 0, at most N workers are between their start
\* and their return, in every reachable state
ConcurrencyBound ==
  rh.concurrency > 0 => Cardinality(workers) <= rh.concurrency

\* the limit is reached and the dispatcher holds a further repository
ConcurrencyBoundWitness ==
  /\ rh.concurrency > 0
  /\ Cardinality(workers) = rh.concurrency
  /\ disp.pc = "go"

\* a run in which the setup, every page request and every clone succeeded and no
\* name was listed twice among the repositories that pass matchRepo
CleanRun ==
  /\ gopc = "returned"
  /\ ~SetupFailed
  /\ disc.pc = "returned"
  /\ disc.err = Nil
  /\ \A k \in Dispatched : ~CloneFailed(k)
  /\ \A i, j \in DOMAIN h.matched : i # j => h.matched[i] # h.matched[j]

\* C2: in a run where setup, page requests and clones succeed and the listed names
\* are distinct, the command ran in exactly the repositories that pass matchRepo,
\* exactly one result was rendered for each of them and none for another, and Go
\* returned nil
CleanRunProcessesMatching ==
  CleanRun =>
    /\ {h.log[k].name : k \in {d \in Dispatched : h.log[d].ran}} = Range(h.matched)
    /\ \A k \in Dispatched : h.log[k].rendered <= 1
    /\ \A n \in Names :
         Cardinality({k \in Dispatched : h.log[k].name = n /\ h.log[k].rendered = 1})
           = IF n \in Range(h.matched) THEN 1 ELSE 0
    /\ ret = Nil

\* a clean run over a listing with a matching and a non-matching repository
CleanRunWitness ==
  /\ CleanRun
  /\ h.skipped # {}
  /\ \E k \in Dispatched : h.log[k].rendered = 1

\* C3: Go returns an error only when the root's setup failed or the discoverer
\* returned that error; clone and command failures neither make Go fail nor
\* cancel the shared context (the group cancels it only for the discoverer's error)
OnlySetupOrDiscoveryFails ==
  /\ (gopc = "returned" /\ ret # Nil) =>
        \/ SetupFailed
        \/ disc.pc = "returned" /\ disc.err = ret
  /\ ctx = "group" => (disc.pc = "returned" /\ disc.err # Nil)

\* Go returned nil, the context never cancelled during the run, after one
\* repository's clone and another's command had failed
FailuresNotFatalWitness ==
  /\ gopc = "returned"
  /\ ret = Nil
  /\ ctx = "wait"
  /\ \E k \in Dispatched : CloneFailed(k)
  /\ \E k \in Dispatched : h.log[k].ran /\ h.log[k].err # Nil

\* C4: a failed command still yields exactly one result, carrying the error and the
\* captured output, and the repositories after it are still dispatched and executed
FailedCommandReported ==
  /\ \A k \in Dispatched :
       /\ h.log[k].sent <= 1
       /\ (h.log[k].ran /\ h.log[k].err # Nil) =>
            \/ \E w \in workers : w.k = k /\ w.pc = "send"
            \/ Reported(k)
  /\ (gopc = "returned" /\ disc.pc = "returned" /\ disc.err = Nil) =>
       /\ Len(h.log) = Len(h.emitted)
       /\ \A k \in Dispatched : CloneFailed(k) \/ h.log[k].ran

\* with limit 1, a command failed and the repository after it was executed and reported
FailedCommandWitness ==
  /\ gopc = "returned"
  /\ rh.concurrency = 1
  /\ \E k1, k2 \in Dispatched :
       /\ k1 < k2
       /\ h.log[k1].err = ErrExit
       /\ Reported(k1)
       /\ h.log[k2].ran
       /\ Reported(k2)

\* C5: every dispatched repository produces exactly one result, so that when all
\* workers have finished as many results were emitted as repositories dispatched;
\* a failed clone's result carries the clone error
EveryDispatchYieldsResult ==
  disp.pc = "returned" =>
    \A k \in Dispatched :
      /\ h.log[k].sent = 1
      /\ CloneFailed(k) => h.log[k].res.err = h.log[k].cloneGot

\* a page request returned an API error
PageFailed ==
  h.pageErr = ErrApi

\* C6: when a page request returns an error other than cancellation, discovery
\* stops at that page (no further request, nothing further emitted, the queue
\* closed), the shared context is cancelled, and Go eventually returns that error
DiscoveryErrorSurfaces ==
  /\ [](PageFailed =>
          /\ disc.pc = "returned"
          /\ disc.err = ErrApi
          /\ repoCh = "closed"
          /\ ctxDone)
  /\ [][PageFailed => (disc'.page = disc.page /\ h'.emitted = h.emitted)]_vars
  /\ []((gopc = "returned" /\ PageFailed) => ret = ErrApi)
  /\ (PageFailed ~> (gopc = "returned" /\ ret = ErrApi))

\* Go returned the error of its second page request, after a repository was dispatched
DiscoveryErrorWitness ==
  /\ gopc = "returned"
  /\ ret = ErrApi
  /\ PageFailed
  /\ disc.page = 2
  /\ Dispatched # {}

\* C7: when discovery fails, every repository whose command had finished before
\* the context was cancelled has its result rendered before Go returns
CompletedBeforeCancelRendered ==
  (gopc = "returned" /\ disc.err # Nil) =>
    \A k \in Dispatched : (h.log[k].ran /\ h.log[k].pre) => h.log[k].rendered = 1

\* C8: once the shared context is cancelled no worker is started any more, also not
\* for a repository the dispatcher already holds while it waits for a free slot
NoStartAfterCancel ==
  [][Len(h'.log) > Len(h.log) => ~ctxDone]_vars

\* C9: a clone or command in progress when the context is cancelled runs to its own
\* completion, with the outcome it would have had without the cancellation
InFlightWorkUndisturbed ==
  \A k \in Dispatched :
    (h.log[k].cloneBegun = "live" /\ h.log[k].cloneGot # "-") =>
      h.log[k].cloneGot = h.log[k].cloneWill

\* C10: the discoverer checks the context before every page request: once the
\* context is cancelled no page request is issued, the discoverer at its check
\* returns the cancellation error, and Go returns that error
DiscovererHonoursCancel ==
  /\ [][disc'.page # disc.page => ~ctxDone]_vars
  /\ [][(disc.pc = "loop" /\ ctxDone /\ disc' # disc) =>
          (disc'.pc = "returned" /\ disc'.err = Canceled)]_vars
  /\ []((gopc = "returned" /\ disc.err = Canceled) => ret = Canceled)

\* the caller cancelled after the first page; the discoverer, about to request the
\* second page, returned the cancellation error, and so did Go
DiscovererCancelWitness ==
  /\ gopc = "returned"
  /\ ret = Canceled
  /\ ctx = "caller"
  /\ h.pageErr = Nil
  /\ disc.err = Canceled
  /\ disc.page = 1
  /\ disc.next = 2

\* C11: without error or cancellation the discoverer requests the pages in sequence,
\* each one the NextPage of the response before it, until a response has none; what
\* it has sent on the queue is at every moment a prefix of the listed repositories
\* that pass matchRepo, in listing order, and all of them when it ends; it sends no
\* repository that fails matchRepo, and the queue is closed when it has ended
DiscovererEmitsMatching ==
  /\ [](/\ Len(h.emitted) <= Len(h.matched)
        /\ \A i \in DOMAIN h.emitted :
             /\ h.emitted[i] = h.matched[i]
             /\ matchRepo(Repo(h.emitted[i])))
  /\ []((disc.pc = "returned" /\ disc.err = Nil) =>
          /\ h.emitted = h.matched
          /\ disc.next = 0
          /\ repoCh = "closed")
  /\ [](disc.pc # "returned" => repoCh = "open")
  /\ [][disc'.page # disc.page =>
          disc'.page = (IF disc.page = 0 THEN 1 ELSE disc.next)]_vars

\* the discoverer ended without error after two pages, having sent one repository
\* and held back another
DiscovererEmitsWitness ==
  /\ disc.pc = "returned"
  /\ disc.err = Nil
  /\ disc.page = 2
  /\ h.emitted # <<>>
  /\ h.emitted = h.matched
  /\ h.skipped # {}

\* C12: a repository that the listing returns on two pages is sent on the
\* repository queue only once
PageBoundaryDuplicateSentOnce ==
  \A i, j \in DOMAIN h.emitted :
    (i # j /\ h.emittedOn[i] # h.emittedOn[j]) => h.emitted[i] # h.emitted[j]

\* C13: a worker begins no clone for a repository whose directory exists when the
\* worker checks it; it goes on to run the command in that directory
NoCloneWhenDirectoryExists ==
  /\ [][\A k \in Dispatched :
          (h.log[k].cloneBegun = "-" /\ h'.log[k].cloneBegun # "-") =>
             h.log[k].name \notin fs.dirs]_vars
  /\ [][\A w \in workers :
          (w.pc = "stat" /\ w.name \in fs.dirs /\ w \notin workers') =>
             [w EXCEPT !.pc = "exec"] \in workers']_vars

\* the command ran, without a clone, in a directory that was there before the run
ExistingDirectoryWitness ==
  /\ ~rh.overwrite
  /\ \E k \in Dispatched :
       /\ h.log[k].name = 1
       /\ h.log[k].cloneBegun = "-"
       /\ h.log[k].ran
       /\ h.log[k].sent = 1

\* C14: within one run at most one clone is begun per repository name, whatever the
\* concurrency limit and the cleanup flag, also when the name is received twice
AtMostOneClonePerName ==
  \A n \in Names :
    Cardinality({k \in Dispatched : h.log[k].name = n /\ h.log[k].cloneBegun # "-"}) <= 1

\* C15: a worker's command starts only after its clone, when one was needed, has
\* completed; during the concurrent phase a repository directory disappears only in
\* the step in which a worker for it, its command completed, has handed its result
\* to the reporter and returns, and only with cleanup enabled; with cleanup enabled
\* it is removed then whether the command succeeded or failed
CloneThenCommandThenCleanup ==
  /\ [](\A w \in workers :
          w.pc \in {"exec", "send"} =>
            (h.log[w.k].cloneBegun = "-" \/ h.log[w.k].cloneGot = Nil))
  /\ [](\A k \in Dispatched :
          h.log[k].ran => (h.log[k].cloneBegun = "-" \/ h.log[k].cloneGot = Nil))
  /\ [][\A n \in Names :
          (n \in fs.dirs /\ n \notin fs'.dirs /\ gopc' = gopc) =>
             /\ rh.cleanup
             /\ \E k \in Dispatched :
                  /\ h.log[k].name = n
                  /\ h.log[k].ran
                  /\ h.log[k].sent = 0
                  /\ h'.log[k].sent = 1]_vars
  /\ [][\A k \in Dispatched :
          (rh.cleanup /\ h.log[k].sent = 0 /\ h'.log[k].sent = 1) =>
             h.log[k].name \notin fs'.dirs]_vars

\* with cleanup enabled a repository was cloned, its command failed, its result was
\* handed over and its directory is gone while Go is still waiting
CleanupAfterFailedCommandWitness ==
  /\ rh.cleanup
  /\ gopc = "wait"
  /\ \E k \in Dispatched :
       /\ h.log[k].cloneGot = Nil
       /\ h.log[k].err = ErrExit
       /\ h.log[k].sent = 1
       /\ h.log[k].name \notin fs.dirs

\* C16: the root's setup precedes the concurrent phase: no page is requested and no
\* worker started while the setup is under way; with overwrite enabled the root
\* exists and is empty when the first page is requested and when the first worker
\* starts; and when clearing or creating the root failed, Go returned that error
\* and no page was ever requested and no clone or command ever issued
SetupPrecedesPipeline ==
  /\ [](gopc \in {"overwrite", "mkdir"} =>
          (disc.page = 0 /\ workers = {} /\ h.log = <<>> /\ disc.pc = "idle"))
  /\ [][(rh.overwrite /\ disc.page = 0 /\ disc'.page = 1) =>
          (fs.root /\ fs.dirs = {})]_vars
  /\ [][(rh.overwrite /\ h.log = <<>> /\ h'.log # <<>>) =>
          (fs.root /\ fs.dirs = {})]_vars
  /\ [](SetupFailed =>
          (gopc = "returned" /\ disc.page = 0 /\ workers = {} /\ h.log = <<>>))

\* overwrite was enabled over a root that held repository 1: the repository was
\* cloned afresh by the first worker
OverwriteWitness ==
  /\ rh.overwrite
  /\ gopc = "wait"
  /\ Len(h.log) = 1
  /\ h.log[1].name = 1
  /\ h.log[1].cloneGot = Nil
  /\ h.log[1].ran

\* C17: with cleanup enabled and the setup successful the root does not exist when
\* Go has returned, whatever the outcome; and once the setup is done the root is
\* removed only in Go's return, when the discoverer and the reporter have ended and
\* every worker has finished
RootRemovedAtReturn ==
  /\ []((gopc = "returned" /\ ~SetupFailed /\ rh.cleanup) => ~fs.root)
  /\ [][(fs.root /\ ~fs'.root /\ gopc # "overwrite") =>
          /\ gopc' = "returned"
          /\ workers = {}
          /\ disc.pc = "returned"
          /\ disp.pc = "returned"
          /\ rep.pc = "returned"]_vars

\* the caller cancelled a run with cleanup enabled after a command had run: Go
\* returned the cancellation error and the root is gone
RootRemovedAfterCancelWitness ==
  /\ rh.cleanup
  /\ gopc = "returned"
  /\ ctx = "caller"
  /\ ret = Canceled
  /\ ~fs.root
  /\ \E k \in Dispatched : h.log[k].ran

\* C18: when Go has returned from the concurrent phase, the discoverer has ended,
\* every dispatched worker has finished (its clone returned, and unless the clone
\* failed its command ran and its result was sent), and the reporter has taken
\* and dealt with every result that was sent and has ended
GoReturnsAfterStages ==
  (gopc = "returned" /\ ~SetupFailed) =>
    /\ disc.pc = "returned"
    /\ repoCh = "closed"
    /\ disp.pc = "returned"
    /\ workers = {}
    /\ rep.pc = "returned"
    /\ \A k \in Dispatched :
         /\ h.log[k].cloneBegun # "-" => h.log[k].cloneGot # "-"
         /\ ~CloneFailed(k) => (h.log[k].ran /\ h.log[k].sent = 1)
         /\ h.log[k].sent = h.log[k].rendered + h.log[k].dropped

\* Go returned a discovery error after one worker's result was rendered and
\* another's was taken by the reporter after the failure
StagesEndedOnErrorWitness ==
  /\ gopc = "returned"
  /\ ret = ErrApi
  /\ \E k1, k2 \in Dispatched :
       /\ h.log[k1].rendered = 1
       /\ h.log[k2].dropped = 1

\* C19: matchRepo(repo) is the conjunction of the filters that are present: the name
\* pattern matches the name, the name is in the name allow-set, some topic matches
\* the topic pattern, some topic is in the topic allow-set. So it is true for every
\* repository when no filter is set, both name filters must pass when both are set,
\* and a repository without topics fails whenever a topic filter is set
MatchRepoIsConjunction ==
  call.fn = "matchRepo" =>
    LET repo == call.repo
        namePattern == rh.nameRegexp.set => repo.name \in rh.nameRegexp.v
        nameAllowed == rh.nameSet.set => repo.name \in rh.nameSet.v
        topicPattern == rh.topicRegexp.set => repo.topics \cap rh.topicRegexp.v # {}
        topicAllowed == rh.topicSet.set => repo.topics \cap rh.topicSet.v # {}
    IN  /\ call.out = (namePattern /\ nameAllowed /\ topicPattern /\ topicAllowed)
        /\ (~rh.nameRegexp.set /\ ~rh.nameSet.set /\ ~rh.topicRegexp.set /\ ~rh.topicSet.set)
              => call.out
        /\ (rh.nameRegexp.set /\ rh.nameSet.set /\ call.out)
              => (repo.name \in rh.nameRegexp.v /\ repo.name \in rh.nameSet.v)
        /\ (repo.topics = {} /\ (rh.topicRegexp.set \/ rh.topicSet.set)) => ~call.out

\* a repository passed both topic filters with a different topic for each
DifferentTopicsWitness ==
  /\ call.fn = "matchRepo"
  /\ call.out
  /\ rh.topicRegexp.set
  /\ rh.topicSet.set
  /\ rh.topicRegexp.v \cap rh.topicSet.v = {}

\* the credentials are set and their user is the configured named user
CredentialsOfNamedUser ==
  /\ rh.authUser.set
  /\ rh.authToken.set
  /\ rh.user.set
  /\ rh.authUser.v = rh.user.v

\* C20: getRepositories resolves the owner in this order: the organization listing
\* when an organization is set, whatever the user and the credentials; else the
\* authenticated-caller listing when the credentials are set and their user is the
\* named user; else the named-user listing when a named user is set; else the
\* no-owner error and no listing. One listing at most is used
OwnerResolutionOrder ==
  call.fn = "getRepositories" =>
    /\ rh.org.set =>
         call.out = [listing |-> "ListByOrg", owner |-> rh.org.v, err |-> Nil]
    /\ (~rh.org.set /\ CredentialsOfNamedUser) =>
         call.out = [listing |-> "ListByAuthenticatedUser", owner |-> 0, err |-> Nil]
    /\ (~rh.org.set /\ ~CredentialsOfNamedUser /\ rh.user.set) =>
         call.out = [listing |-> "ListByUser", owner |-> rh.user.v, err |-> Nil]
    /\ (~rh.org.set /\ ~rh.user.set) =>
         call.out = [listing |-> "none", owner |-> 0, err |-> ErrNoOwner]
    /\ (call.out.err = Nil) = (call.out.listing # "none")

\* organization, named user and that user's credentials are all set: the
\* organization listing was chosen
OrgWinsWitness ==
  /\ call.fn = "getRepositories"
  /\ rh.org.set
  /\ CredentialsOfNamedUser
  /\ call.out.listing = "ListByOrg"

\* the credential pair is configured
CredentialsSet ==
  rh.authUser.set /\ rh.authToken.set

\* C21 as stated: discovery fails with the no-owner error exactly when no
\* organization, no named user and no credentials are configured; with credentials
\* but neither organization nor named user the authenticated caller's repositories
\* are listed
NoOwnerIffNothingConfigured ==
  call.fn = "getRepositories" =>
    /\ (call.out.err = ErrNoOwner) = (~rh.org.set /\ ~rh.user.set /\ ~CredentialsSet)
    /\ (CredentialsSet /\ ~rh.org.set /\ ~rh.user.set) =>
         call.out.listing = "ListByAuthenticatedUser"

\* C21, amended: discovery fails with the no-owner error exactly when neither an
\* organization nor a named user is configured, whatever the credentials; with
\* credentials but neither organization nor named user it fails with that error
\* and lists nothing
NoOwnerIffNoOrgNoUser ==
  call.fn = "getRepositories" =>
    /\ (call.out.err = ErrNoOwner) = (~rh.org.set /\ ~rh.user.set)
    /\ (CredentialsSet /\ ~rh.org.set /\ ~rh.user.set) =>
         (call.out.listing = "none" /\ call.out.err = ErrNoOwner)

\* credentials are configured without organization or named user: the no-owner error
CredentialsAloneWitness ==
  /\ call.fn = "getRepositories"
  /\ CredentialsSet
  /\ ~rh.org.set
  /\ ~rh.user.set
  /\ call.out.err = ErrNoOwner

\* the options of the call that return an error
FailingOptions ==
  {i \in DOMAIN call.opts : call.opts[i].err # Nil}

RECURSIVE ApplyAll(_, _)
ApplyAll(exec, opts) ==
  IF opts = <<>> THEN exec ELSE ApplyAll(Applied(exec, Head(opts)), Tail(opts))

\* C22: NewRepositoryExecutor runs its options in order; when one returns an error
\* it returns that error and no executor, and no option after that one is run; when
\* every option succeeds it returns, without error, the executor with all of them
\* applied (the working directory being available)
ConstructionAtomic ==
  call.fn = "NewRepositoryExecutor" =>
    /\ Len(call.called) <= Len(call.opts)
    /\ call.called = SubSeq(call.opts, 1, Len(call.called))
    /\ (call.pc = "returned" /\ call.err # ErrGetwd) =>
         IF FailingOptions = {}
         THEN /\ call.err = Nil
              /\ call.out = ApplyAll(DefaultExec, call.opts)
              /\ call.called = call.opts
         ELSE LET f == CHOOSE i \in FailingOptions : \A j \in FailingOptions : i <= j
              IN  /\ call.err = call.opts[f].err
                  /\ call.out = NilExec
                  /\ Len(call.called) = f

\* of three options the second, an invalid name pattern, failed: its error was
\* returned and the third, an invalid topic pattern, was never run
ConstructionFailedWitness ==
  /\ call.fn = "NewRepositoryExecutor"
  /\ call.pc = "returned"
  /\ Len(call.opts) = 3
  /\ call.opts[1].err = Nil
  /\ call.opts[2].err = ErrNameExp
  /\ call.opts[3].err = ErrTopicExp
  /\ call.err = ErrNameExp
  /\ call.out = NilExec
  /\ Len(call.called) = 2

\* the arguments hold a pattern that does not compile, or an empty command
BadConfiguration ==
  /\ call.fn = "RunWithArgs"
  /\ \/ call.args.nameExp = "invalid"
     \/ call.args.topicExp = "invalid"
     \/ call.args.command = ""

\* C23: with an invalid name or topic pattern or an empty command, RunWithArgs
\* returns an error without entering Go: no page is requested, nothing is cloned or
\* executed, and the working root is neither deleted nor created
BadConfigurationStopsBeforeGo ==
  BadConfiguration =>
    /\ gopc = "notcalled"
    /\ call.pc # "go"
    /\ disc.page = 0
    /\ h.log = <<>>
    /\ workers = {}
    /\ fs = call.fs0
    /\ call.pc = "returned" => ret \in {ErrReadFile, ErrNameExp, ErrTopicExp, ErrNoCommand}
    /\ (call.pc = "returned" /\ call.args.nameList = "unset") =>
         ret \in {ErrNameExp, ErrTopicExp, ErrNoCommand}

\* valid patterns, overwrite requested over an existing root, but no command: the
\* run returned the no-command error and the root is as it was
EmptyCommandWitness ==
  /\ call.fn = "RunWithArgs"
  /\ call.pc = "returned"
  /\ call.args.command = ""
  /\ call.args.nameExp = "valid"
  /\ call.args.overwrite
  /\ ret = ErrNoCommand
  /\ fs = [root |-> TRUE, dirs |-> {1}]

\* C24: a result whose rendering fails (json.Marshal fails, or the format is unknown)
\* is logged about and not printed; the reporter goes on with the results after it,
\* each of which reaches the rendering in its turn; and what Go returns is the
\* discoverer's outcome, whatever the rendering did
RenderFailureSkipsResult ==
  /\ \A k \in Dispatched :
       /\ h.log[k].printed + h.log[k].failed = h.log[k].rendered
       /\ h.log[k].rendered <= 1
       /\ rh.outputFormat = ConsoleOutputFormat => h.log[k].failed = 0
       /\ rh.outputFormat \notin {ConsoleOutputFormat, JsonOutputFormat} =>
            h.log[k].printed = 0
  /\ rep.pc = "returned" => resultCh = "closed"
  /\ (gopc = "returned" /\ ~SetupFailed) =>
       /\ ret = disc.err
       /\ disc.err = Nil => \A k \in Dispatched : ~CloneFailed(k) => h.log[k].rendered = 1

\* in JSON format the first result failed to serialize and the second was printed;
\* Go returned nil
RenderFailureWitness ==
  /\ gopc = "returned"
  /\ ret = Nil
  /\ rh.outputFormat = JsonOutputFormat
  /\ Len(h.log) = 2
  /\ h.log[1].failed = 1
  /\ h.log[1].printed = 0
  /\ h.log[2].printed = 1

\* C25: with the limit -1 the dispatcher never waits for a slot: a repository
\* received while the context is live is dispatched at the dispatcher's next step,
\* so that all the matching repositories can be in flight together
UnboundedNeverWaits ==
  /\ [](rh.concurrency = -1 => disp.pc # "go")
  /\ [][(rh.concurrency = -1 /\ disp.pc = "check" /\ ~ctxDone /\ disp' # disp) =>
          /\ Len(h'.log) = Len(h.log) + 1
          /\ h'.log[Len(h'.log)].name = disp.repo.name
          /\ Cardinality(workers') = Cardinality(workers) + 1]_vars

\* with the limit -1 the discoverer has ended and every matching repository is
\* in flight
AllInFlightWitness ==
  /\ rh.concurrency = -1
  /\ disc.pc = "returned"
  /\ disc.err = Nil
  /\ Len(h.matched) = MaxListed
  /\ Cardinality(workers) = Len(h.matched)

\* C26: no two workers in flight at the same time have the same repository
\* directory, i.e. the same repository name
WorkersOwnTheirDirectory ==
  \A w1, w2 \in workers : w1 # w2 => w1.name # w2.name

\* C27: for every limit WithConcurrency accepts, zero included, no state is reached
\* in which Go waits while no goroutine of the pipeline can take a step
NoStageBlockedForever ==
  gopc = "wait" => ENABLED Next

\* C28: no send happens on a closed queue: the discoverer at its send has repoCh
\* open and a worker in flight has resultCh open; resultCh is closed only when the
\* dispatcher has returned and no worker is left; repoCh is closed once, by the
\* returning discoverer, after its last send; and both are closed whenever their
\* stage has returned, however it returned
QueuesClosedAfterLastSend ==
  /\ [](/\ (disc.pc = "send" => repoCh = "open")
        /\ (workers # {} => resultCh = "open")
        /\ (resultCh = "closed" <=> disp.pc = "returned")
        /\ (repoCh = "closed" <=> disc.pc = "returned")
        /\ ((gopc = "returned" /\ ~SetupFailed) => (repoCh = "closed" /\ resultCh = "closed")))
  /\ [][
         /\ (repoCh' # repoCh) =>
             (repoCh = "open" /\ disc.pc # "returned" /\ disc'.pc = "returned")
         /\ (resultCh' # resultCh) =>
             (resultCh = "open" /\ disp.pc # "returned" /\ disp'.pc = "returned")
         /\ (repoCh = "closed") => (h'.emitted = h.emitted)
         /\ (resultCh = "closed") =>
             (\A k \in Dispatched : h'.log[k].sent = h.log[k].sent)
       ]_vars

\* the discoverer failed on a page after a repository was sent, and Go returned with
\* both queues closed and that repository's result sent
ClosedAfterDiscoveryErrorWitness ==
  /\ gopc = "returned"
  /\ disc.err = ErrApi
  /\ repoCh = "closed"
  /\ resultCh = "closed"
  /\ \E k \in Dispatched : h.log[k].sent = 1

\* C29: the default limit is 1, and with the limit 1 and no cancellation at most one
\* worker is in flight, the worker of the k-th emitted repository has started only
\* after the result of the (k-1)-th was taken by the reporter, and a result is
\* rendered only after the results of all the repositories emitted before it
OneAtATimeInDiscoveryOrder ==
  /\ DefaultExec.concurrency = 1
  /\ (rh.concurrency = 1 /\ ctx \in {"none", "wait"}) =>
       /\ Cardinality(workers) <= 1
       /\ \A k \in Dispatched :
            /\ h.log[k].name = h.emitted[k]
            /\ k > 1 => h.log[k - 1].sent = 1
            /\ h.log[k].rendered = 1 => \A j \in 1..(k - 1) : h.log[j].rendered = 1

\* C30: with a limit N > 0, the repositories handed to the repository queue, less
\* those whose worker has returned and those discarded after the cancellation, are
\* at most N + 1 in every reachable state
BackPressureBound ==
  rh.concurrency > 0 =>
    Len(h.emitted) - (Len(h.log) - Cardinality(workers)) - h.discarded <= rh.concurrency + 1

\* N workers are in flight, the dispatcher holds one more repository and waits for
\* a slot, and the discoverer waits to hand over the next one
DiscovererHeldBackWitness ==
  /\ rh.concurrency > 0
  /\ Cardinality(workers) = rh.concurrency
  /\ disp.pc = "go"
  /\ disc.pc = "send"
  /\ Len(h.emitted) - (Len(h.log) - Cardinality(workers)) - h.discarded = rh.concurrency + 1

\* C31: when RunWithArgs is given both AuthUser U and AuthToken T, the executor's
\* credentials are (U, T); with the named user U and no organization the
\* authenticated caller's listing is chosen, and a clone authenticates as U with T
CredentialPairPassedUnchanged ==
  (call.pc # "new" /\ call.args.authUser.set /\ call.args.authToken.set) =>
    /\ rh.authUser = Some(call.args.authUser.v)
    /\ rh.authToken = Some(call.args.authToken.v)
    /\ (/\ call.pc \in {"listed", "cloned"}
        /\ ~call.args.org.set
        /\ call.args.user.set
        /\ call.args.user.v = call.args.authUser.v)
         => call.out.listing = "ListByAuthenticatedUser"
    /\ call.pc = "cloned" =>
         call.auth = [set |-> TRUE, Username |-> call.args.authUser.v,
                      Password |-> call.args.authToken.v]

====
